---- MODULE Spec2Model ----
(***************************************************************************)
(* Benchmark dashboard generator (benches/generate_dashboard.py).          *)
(*                                                                         *)
(* Timings are Python floats in the program.  Here a timing is an exact    *)
(* decimal fraction [n |-> numerator, d |-> power of ten], kept in lowest  *)
(* decimal terms, so 1.5 is [n |-> 15, d |-> 10] and 1500.0 is             *)
(* [n |-> 1500, d |-> 1].  A magnitude token is the sequence of its        *)
(* characters, <<"1", ".", "5">>.  The two micro-sign glyphs the program   *)
(* accepts are written "micro_s" (U+00B5) and "mu_s" (U+03BC).             *)
(***************************************************************************)
EXTENDS Integers, Sequences, FiniteSets, TLC

VARIABLES tree, dirState, mpl, dashboard, charts, plotted, results, html, exit, pc, arg,
          ret

vars ==
    <<tree, dirState, mpl, dashboard, charts, plotted, results, html, exit, pc, arg, ret>>

(***************************************************************************)
(* Bounds of the model.                                                    *)
(***************************************************************************)
MaxMatches == 2
MaxRuns == 3

(***************************************************************************)
(* Decimal arithmetic.                                                     *)
(***************************************************************************)
RECURSIVE Pow10(_)
Pow10(k) == IF k = 0 THEN 1 ELSE 10 * Pow10(k - 1)

RECURSIVE Canon(_, _)
Canon(n, d) ==
    IF d > 1 /\ n % 10 = 0 THEN Canon(n \div 10, d \div 10) ELSE [n |-> n, d |-> d]

IsNum(x) == "n" \in DOMAIN x

\* x * m for a power of ten m
NumScale(x, m) ==
    IF x.d <= m THEN [n |-> x.n * (m \div x.d), d |-> 1]
    ELSE [n |-> x.n, d |-> x.d \div m]

\* x < k for a natural k
NumBelow(x, k) == x.n \div x.d < k

\* round(n / q) to the nearest integer, ties to even
RoundHalfEven(n, q) ==
    LET f == n \div q
        r == n % q
    IN  IF 2 * r > q THEN f + 1
        ELSE IF 2 * r < q THEN f
        ELSE IF f % 2 = 0 THEN f ELSE f + 1

(***************************************************************************)
(* float(match[3]) on a token of the character class [0-9.]                *)
(***************************************************************************)
DigitVal(c) ==
    CASE c = "0" -> 0 [] c = "1" -> 1 [] c = "2" -> 2 [] c = "3" -> 3
      [] c = "4" -> 4 [] c = "5" -> 5 [] c = "6" -> 6 [] c = "7" -> 7
      [] c = "8" -> 8 [] c = "9" -> 9

RECURSIVE DigitsVal(_)
DigitsVal(ds) ==
    IF ds = <<>> THEN 0
    ELSE 10 * DigitsVal(SubSeq(ds, 1, Len(ds) - 1)) + DigitVal(ds[Len(ds)])

ValueError == [err |-> "ValueError"]

float(tok) ==
    LET dots   == {i \in 1..Len(tok) : tok[i] = "."}
        digits == SelectSeq(tok, LAMBDA c : c # ".")
    IN  IF Cardinality(dots) > 1 \/ digits = <<>> THEN ValueError
        ELSE LET frac == IF dots = {} THEN 0
                         ELSE Len(tok) - (CHOOSE i \in dots : TRUE)
             IN  Canon(DigitsVal(digits), Pow10(frac))

(***************************************************************************)
(* parse_benchmark_results: one regex match, lines 86-114                  *)
(* A match is the tuple of the seven regex groups                          *)
(*   <<test, low, low unit, mean, mean unit, high, high unit>>.            *)
(***************************************************************************)
Skip == [err |-> "skip"]

\* the unit chain without the Greek-mu spelling of microseconds
ConvertToNsAsciiMicro(mean_time, unit) ==
    IF unit = "ns" THEN mean_time
    ELSE IF unit \in {"us", "micro_s"} THEN NumScale(mean_time, 1000)
    ELSE IF unit = "ms" THEN NumScale(mean_time, 1000000)
    ELSE IF unit = "s" THEN NumScale(mean_time, 1000000000)
    ELSE Skip

\* lines 97-108: the unit chain
ConvertToNs(mean_time, unit) ==
    IF unit = "ns" THEN mean_time
    ELSE IF unit \in {"us", "micro_s", "mu_s"} THEN NumScale(mean_time, 1000)
    ELSE IF unit = "ms" THEN NumScale(mean_time, 1000000)
    ELSE IF unit = "s" THEN NumScale(mean_time, 1000000000)
    ELSE Skip

\* lines 87-114: the timing one match stores, or Skip
MatchTiming(match) ==
    LET mean_time == float(match[4])
        unit      == match[5]
    IN  IF ~IsNum(mean_time) THEN Skip
        ELSE IF mean_time.n < 0 THEN Skip
        ELSE ConvertToNs(mean_time, unit)

(***************************************************************************)
(* Python dicts keep insertion order: a dict is a sequence of              *)
(* [key, val] records with distinct keys.                                  *)
(***************************************************************************)
DictKeys(d) == {d[i].key : i \in 1..Len(d)}

DictGet(d, k) == d[CHOOSE i \in 1..Len(d) : d[i].key = k].val

DictSet(d, k, v) ==
    IF k \in DictKeys(d)
    THEN [i \in 1..Len(d) |-> IF d[i].key = k THEN [key |-> k, val |-> v] ELSE d[i]]
    ELSE Append(d, [key |-> k, val |-> v])

\* run_results['benchmarks'][bench_name][test_name] = mean_time (line 110)
StoreTiming(benchmarks, bench_name, test_name, mean_time) ==
    LET suite == IF bench_name \in DictKeys(benchmarks)
                 THEN DictGet(benchmarks, bench_name) ELSE <<>>
    IN  DictSet(benchmarks, bench_name, DictSet(suite, test_name, mean_time))

\* the loop leaving the artifact at the first rejected measurement
RECURSIVE StoreMatchesBreak(_, _, _)
StoreMatchesBreak(benchmarks, bench_name, matches) ==
    IF matches = <<>> THEN benchmarks
    ELSE LET match == Head(matches)
             t     == MatchTiming(match)
         IN  IF IsNum(t)
             THEN StoreMatchesBreak(StoreTiming(benchmarks, bench_name, match[1], t),
                                    bench_name, Tail(matches))
             ELSE benchmarks

\* lines 86-114: the loop over the matches of one artifact
RECURSIVE StoreMatches(_, _, _)
StoreMatches(benchmarks, bench_name, matches) ==
    IF matches = <<>> THEN benchmarks
    ELSE LET match == Head(matches)
             t     == MatchTiming(match)
             next  == IF IsNum(t) THEN StoreTiming(benchmarks, bench_name, match[1], t)
                      ELSE benchmarks
         IN  StoreMatches(next, bench_name, Tail(matches))

\* the artifact's suite looked up in the defaultdict before its loop
ParseFileTouch(benchmarks, bench_file) ==
    IF bench_file.kind = "unreadable" THEN benchmarks
    ELSE IF bench_file.kind = "blank" THEN benchmarks
    ELSE IF bench_file.matches = <<>> THEN benchmarks
    ELSE StoreMatches(IF bench_file.stem \in DictKeys(benchmarks) THEN benchmarks
                      ELSE Append(benchmarks, [key |-> bench_file.stem, val |-> <<>>]),
                      bench_file.stem, bench_file.matches)

\* lines 63-114: one artifact file [stem, kind, matches];
\* kind is "unreadable" (open or read raises), "blank" (content.strip() is
\* empty) or "text"; matches is what re.findall returns on the content
ParseFile(benchmarks, bench_file) ==
    IF bench_file.kind = "unreadable" THEN benchmarks
    ELSE IF bench_file.kind = "blank" THEN benchmarks
    ELSE IF bench_file.matches = <<>> THEN benchmarks
    ELSE StoreMatches(benchmarks, bench_file.stem, bench_file.matches)

RECURSIVE ParseFiles(_, _)
ParseFiles(benchmarks, bench_files) ==
    IF bench_files = <<>> THEN benchmarks
    ELSE ParseFiles(ParseFile(benchmarks, Head(bench_files)), Tail(bench_files))

\* datetime.strptime(timestamp, "%Y%m%d_%H%M%S") on the directory names of
\* the model; <<>> stands for ValueError
strptime(timestamp) ==
    CASE timestamp = "20240101_000000" -> <<2024, 1, 1, 0, 0, 0>>
      [] timestamp = "20240102_000000" -> <<2024, 1, 2, 0, 0, 0>>
      [] timestamp = "20240103_000000" -> <<2024, 1, 3, 0, 0, 0>>
      [] timestamp = "20240104_000000" -> <<2024, 1, 4, 0, 0, 0>>
      [] timestamp = "20240105_000000" -> <<2024, 1, 5, 0, 0, 0>>
      [] timestamp = "202412_000000" -> <<2024, 1, 2, 0, 0, 0>>
      [] OTHER -> <<>>

\* lines 42-117: the loop over sorted(glob(results_dir/*)); an entry is
\* [name, isDir, files], files in the order glob enumerates them
RECURSIVE ParseDirs(_, _)
ParseDirs(all_results, timestamp_dirs) ==
    IF timestamp_dirs = <<>> THEN all_results
    ELSE LET timestamp_dir == Head(timestamp_dirs)
             dt            == strptime(timestamp_dir.name)
             benchmarks    == ParseFiles(<<>>, timestamp_dir.files)
             next ==
                 IF ~timestamp_dir.isDir THEN all_results
                 ELSE IF dt = <<>> THEN all_results
                 ELSE IF timestamp_dir.files = <<>> THEN all_results
                 ELSE IF benchmarks # <<>>
                      THEN Append(all_results,
                                  [timestamp |-> dt, benchmarks |-> benchmarks])
                 ELSE all_results
         IN  ParseDirs(next, Tail(timestamp_dirs))

\* lines 26-119; results_dir is [exists, entries], entries in sorted order
parse_benchmark_results(results_dir) ==
    IF ~results_dir.exists THEN <<>>
    ELSE IF results_dir.entries = <<>> THEN <<>>
    ELSE ParseDirs(<<>>, results_dir.entries)

(***************************************************************************)
(* format_time, lines 308-317.  The text "999 ns" is                       *)
(* [val |-> 999, dec |-> 0, unit |-> "ns"] and "1000.0 mu_s" is            *)
(* [val |-> 10000, dec |-> 1, unit |-> "mu_s"]: val counts units of        *)
(* 10^-dec.  The ".Nf" conversion rounds to nearest, ties to even.         *)
(***************************************************************************)
\* the cut-offs taken inclusively
format_time_inclusive(nanoseconds) ==
    IF nanoseconds.n <= 1000 * nanoseconds.d
    THEN [val |-> RoundHalfEven(nanoseconds.n, nanoseconds.d), dec |-> 0, unit |-> "ns"]
    ELSE IF nanoseconds.n \div nanoseconds.d < 1000000
            \/ nanoseconds = [n |-> 1000000, d |-> 1]
    THEN [val |-> RoundHalfEven(nanoseconds.n, nanoseconds.d * 100), dec |-> 1,
          unit |-> "mu_s"]
    ELSE IF nanoseconds.n \div nanoseconds.d < 1000000000
            \/ nanoseconds = [n |-> 1000000000, d |-> 1]
    THEN [val |-> RoundHalfEven(nanoseconds.n, nanoseconds.d * 100000), dec |-> 1,
          unit |-> "ms"]
    ELSE [val |-> RoundHalfEven(nanoseconds.n, nanoseconds.d * 10000000), dec |-> 2,
          unit |-> "s"]

format_time(nanoseconds) ==
    IF NumBelow(nanoseconds, 1000)
    THEN [val |-> RoundHalfEven(nanoseconds.n, nanoseconds.d), dec |-> 0, unit |-> "ns"]
    ELSE IF NumBelow(nanoseconds, 1000000)
    THEN [val |-> RoundHalfEven(nanoseconds.n, nanoseconds.d * 100), dec |-> 1,
          unit |-> "mu_s"]
    ELSE IF NumBelow(nanoseconds, 1000000000)
    THEN [val |-> RoundHalfEven(nanoseconds.n, nanoseconds.d * 100000), dec |-> 1,
          unit |-> "ms"]
    ELSE [val |-> RoundHalfEven(nanoseconds.n, nanoseconds.d * 10000000), dec |-> 2,
          unit |-> "s"]

(***************************************************************************)
(* Python's order on the names of the model (str.__lt__)                   *)
(***************************************************************************)
NameOrder == <<"eval", "lexer", "parser", "scan", "vm">>

StrLess(a, b) ==
    (CHOOSE i \in 1..Len(NameOrder) : NameOrder[i] = a)
        < (CHOOSE i \in 1..Len(NameOrder) : NameOrder[i] = b)

\* the items in insertion order
unsorted(d) == d

\* sorted(d.items()): the keys are distinct, so the values never compare
RECURSIVE sorted(_)
sorted(d) ==
    IF d = <<>> THEN <<>>
    ELSE LET m == CHOOSE i \in 1..Len(d) :
                      \A j \in 1..Len(d) : j # i => StrLess(d[i].key, d[j].key)
         IN  <<d[m]>> \o sorted(SubSeq(d, 1, m - 1) \o SubSeq(d, m + 1, Len(d)))

(***************************************************************************)
(* generate_html_dashboard: the Latest Results table, lines 237-249        *)
(***************************************************************************)
RECURSIVE LatestSuiteRows(_, _)
LatestSuiteRows(suite, tests) ==
    IF tests = <<>> THEN <<>>
    ELSE <<[suite |-> suite, test |-> Head(tests).key,
            time |-> format_time(Head(tests).val)]>>
         \o LatestSuiteRows(suite, Tail(tests))

RECURSIVE LatestRows(_)
LatestRows(suites) ==
    IF suites = <<>> THEN <<>>
    ELSE LatestSuiteRows(Head(suites).key, sorted(Head(suites).val))
         \o LatestRows(Tail(suites))

LatestTable(rs) ==
    IF rs # <<>>
    THEN [kind |-> "table", rows |-> LatestRows(sorted(rs[Len(rs)].benchmarks))]
    ELSE [kind |-> "No results available", rows |-> <<>>]

(***************************************************************************)
(* generate_html_dashboard: the comparison table, lines 251-290            *)
(***************************************************************************)
Max(a, b) == IF a >= b THEN a ELSE b

\* the zero guard without the unbounded-increase case
ChangeCellNoInf(prev_time, curr_time) ==
    IF prev_time.n = 0
    THEN [change_str |-> "N/A", tenths |-> 0, change_class |-> ""]
    ELSE LET D    == Max(prev_time.d, curr_time.d)
             P    == prev_time.n * (D \div prev_time.d)
             C    == curr_time.n * (D \div curr_time.d)
             diff == C - P
             mag  == IF diff < 0 THEN 0 - diff ELSE diff
             t    == RoundHalfEven(mag * 1000, P)
         IN  [change_str   |-> IF mag * 1000 > P THEN "pct" ELSE "~",
              tenths       |-> IF mag * 1000 > P
                               THEN (IF diff < 0 THEN 0 - t ELSE t) ELSE 0,
              change_class |-> IF diff < 0 THEN "improvement"
                               ELSE IF diff * 100 > 5 * P THEN "regression"
                               ELSE ""]

\* lines 270-278: change_str and change_class of one row.  change_str is
\* "N/A", "+inf%", "~" or "pct" with the signed percentage in tenths.
ChangeCell(prev_time, curr_time) ==
    IF prev_time.n = 0
    THEN [change_str |-> IF curr_time.n = 0 THEN "N/A" ELSE "+inf%", tenths |-> 0,
          change_class |-> ""]
    ELSE LET D    == Max(prev_time.d, curr_time.d)
             P    == prev_time.n * (D \div prev_time.d)
             C    == curr_time.n * (D \div curr_time.d)
             diff == C - P
             mag  == IF diff < 0 THEN 0 - diff ELSE diff
             t    == RoundHalfEven(mag * 1000, P)
         IN  [change_str   |-> IF mag * 1000 > P THEN "pct" ELSE "~",
              tenths       |-> IF mag * 1000 > P
                               THEN (IF diff < 0 THEN 0 - t ELSE t) ELSE 0,
              change_class |-> IF diff < 0 THEN "improvement"
                               ELSE IF diff * 100 > 5 * P THEN "regression"
                               ELSE ""]

RECURSIVE ComparisonSuiteRows(_, _, _)
ComparisonSuiteRows(suite, tests, prevTests) ==
    IF tests = <<>> THEN <<>>
    ELSE LET test == Head(tests).key
             rest == ComparisonSuiteRows(suite, Tail(tests), prevTests)
         IN  IF test \notin DictKeys(prevTests) THEN rest
             ELSE LET prev_time == DictGet(prevTests, test)
                      curr_time == Head(tests).val
                      cell      == ChangeCell(prev_time, curr_time)
                  IN  <<[suite |-> suite, test |-> test,
                         previous |-> format_time(prev_time),
                         latest |-> format_time(curr_time),
                         change_str |-> cell.change_str, tenths |-> cell.tenths,
                         change_class |-> cell.change_class]>> \o rest

RECURSIVE ComparisonRows(_, _)
ComparisonRows(suites, previous) ==
    IF suites = <<>> THEN <<>>
    ELSE LET suite == Head(suites).key
             rest  == ComparisonRows(Tail(suites), previous)
         IN  IF suite \notin DictKeys(previous) THEN rest
             ELSE ComparisonSuiteRows(suite, Head(suites).val,
                                      DictGet(previous, suite)) \o rest

\* the first run taken for the previous one
PreviousRunFirst(rs) == rs[1]

\* line 255: previous = results[-2]
PreviousRun(rs) == rs[Len(rs) - 1]

ComparisonTable(rs) ==
    IF Len(rs) >= 2
    THEN [kind |-> "table",
          rows |-> ComparisonRows(rs[Len(rs)].benchmarks, PreviousRun(rs).benchmarks)]
    ELSE [kind |-> "Need at least 2 runs for comparison", rows |-> <<>>]

\* lines 231-235: the chart references, for the fixed list of suites
KnownSuites ==
    <<"lexer", "parser", "compilation", "features", "scenarios", "memory", "tooling">>

\* every suite of the list referenced without the os.path.exists test
ChartRefsUnchecked(onDisk) == KnownSuites

ChartRefs(onDisk) == SelectSeq(KnownSuites, LAMBDA s : s \in onDisk)

\* lines 231-298: final_html
FinalHtml(rs, onDisk) ==
    [charts |-> ChartRefs(onDisk), latest_results |-> LatestTable(rs),
     comparisons |-> ComparisonTable(rs)]

NoHtml == [charts |-> <<>>, latest_results |-> [kind |-> "", rows |-> <<>>],
           comparisons |-> [kind |-> "", rows |-> <<>>]]

\* lines 133-141: the suites generate_charts draws, one figure each
RECURSIVE ChartSuites(_)
ChartSuites(rs) ==
    IF rs = <<>> THEN {}
    ELSE DictKeys(Head(rs).benchmarks) \cup ChartSuites(Tail(rs))

(***************************************************************************)
(* generate_charts: the series handed to ax.plot, lines 133-166            *)
(***************************************************************************)
None == [err |-> "None"]

\* lines 137-141: benchmarks[suite][test], in the order the suites and the
\* tests are first seen over the runs (the grouped times are not plotted)
RECURSIVE GroupTests(_, _, _)
GroupTests(grouped, suite, tests) ==
    IF tests = <<>> THEN grouped
    ELSE LET seen == IF suite \in DictKeys(grouped) THEN DictGet(grouped, suite) ELSE <<>>
             test == Head(tests).key
             times == IF test \in DictKeys(seen) THEN DictGet(seen, test) ELSE <<>>
         IN  GroupTests(DictSet(grouped, suite,
                                DictSet(seen, test, Append(times, Head(tests).val))),
                        suite, Tail(tests))

RECURSIVE GroupSuites(_, _)
GroupSuites(grouped, suites) ==
    IF suites = <<>> THEN grouped
    ELSE GroupSuites(GroupTests(grouped, Head(suites).key, Head(suites).val),
                     Tail(suites))

RECURSIVE GroupRuns(_, _)
GroupRuns(grouped, rs) ==
    IF rs = <<>> THEN grouped
    ELSE GroupRuns(GroupSuites(grouped, Head(rs).benchmarks), Tail(rs))

\* line 138
Timestamps(rs) == [i \in 1..Len(rs) |-> rs[i].timestamp]

\* the gaps filled with zero
PaddedTimesZero(rs, suite, test_name) ==
    [i \in 1..Len(rs) |->
        IF suite \in DictKeys(rs[i].benchmarks)
           /\ test_name \in DictKeys(DictGet(rs[i].benchmarks, suite))
        THEN DictGet(DictGet(rs[i].benchmarks, suite), test_name)
        ELSE [n |-> 0, d |-> 1]]

\* lines 152-158
PaddedTimes(rs, suite, test_name) ==
    [i \in 1..Len(rs) |->
        IF suite \in DictKeys(rs[i].benchmarks)
           /\ test_name \in DictKeys(DictGet(rs[i].benchmarks, suite))
        THEN DictGet(DictGet(rs[i].benchmarks, suite), test_name)
        ELSE None]

\* lines 149-161: the lines of one figure; has_data is set by the first test
\* that has a value and is not reset for the tests after it
RECURSIVE SuitePlots(_, _, _, _)
SuitePlots(rs, suite, tests, has_data) ==
    IF tests = <<>> THEN <<>>
    ELSE LET test_name    == Head(tests).key
             padded_times == PaddedTimes(rs, suite, test_name)
             has          == has_data
                             \/ \E i \in 1..Len(padded_times) : IsNum(padded_times[i])
             rest         == SuitePlots(rs, suite, Tail(tests), has)
         IN  IF has
             THEN <<[suite |-> suite, label |-> test_name,
                     x |-> SubSeq(Timestamps(rs), 1, Len(padded_times)),
                     y |-> padded_times]>> \o rest
             ELSE rest

\* lines 144-161: every figure
RECURSIVE FigurePlots(_, _)
FigurePlots(rs, grouped) ==
    IF grouped = <<>> THEN <<>>
    ELSE SuitePlots(rs, Head(grouped).key, Head(grouped).val, FALSE)
         \o FigurePlots(rs, Tail(grouped))

Plots(rs) == FigurePlots(rs, GroupRuns(<<>>, rs))

(***************************************************************************)
(* Inputs: results trees.  A measurement line of an artifact is the tuple  *)
(* of groups the pattern of line 79 extracts from it.                      *)
(***************************************************************************)
Meas(test, mean, unit) == <<test, <<"1">>, "ns", mean, unit, <<"9">>, "s">>

Tok0 == <<"0">>
Tok7 == <<"7">>
Tok12 == <<"1", "2">>
Tok100 == <<"1", "0", "0">>
Tok105 == <<"1", "0", "5">>
Tok106 == <<"1", "0", "6">>
Tok1p5 == <<"1", ".", "5">>
TokBad == <<"1", ".", "2", ".", "3">>

DirNames ==
    <<"20240101_000000", "20240102_000000", "20240103_000000", "20240104_000000",
      "20240105_000000">>

SeqsUpTo(S, k) == UNION {[1..j -> S] : j \in 0..k}

TextFile(stem, matches) == [stem |-> stem, kind |-> "text", matches |-> matches]

BadFiles(stem) ==
    {[stem |-> stem, kind |-> "unreadable", matches |-> <<>>],
     [stem |-> stem, kind |-> "blank", matches |-> <<>>],
     TextFile(stem, <<>>)}

Dir(i, files) == [name |-> DirNames[i], isDir |-> TRUE, files |-> files]

\* artifacts with failing and valid measurements side by side
RichMeasurements ==
    {Meas(t, m[1], m[2]) :
        t \in {"scan", "eval"},
        m \in {<<Tok12, "ns">>, <<Tok1p5, "mu_s">>, <<TokBad, "ns">>, <<Tok12, "xs">>}}

RichFiles ==
    BadFiles("lexer")
    \cup {TextFile("lexer", ms) : ms \in SeqsUpTo(RichMeasurements, MaxMatches) \ {<<>>}}

SiblingFiles ==
    BadFiles("parser")
    \cup {TextFile("parser", <<Meas("scan", Tok12, "ms")>>),
          TextFile("parser", <<Meas("scan", Tok12, "xs")>>)}

RichFileLists ==
    {<<f>> : f \in RichFiles}
    \cup {<<f, g>> : f \in RichFiles, g \in SiblingFiles}
    \cup {<<g, f>> : f \in RichFiles, g \in SiblingFiles}

LaterFiles ==
    <<TextFile("vm", <<Meas("eval", Tok100, "us")>>),
      TextFile("parser", <<Meas("scan", Tok12, "xs")>>)>>

RichTrees ==
    {[exists |-> TRUE, entries |-> <<Dir(1, fs)>>] : fs \in RichFileLists}
    \cup {[exists |-> TRUE, entries |-> <<Dir(1, fs), Dir(2, LaterFiles)>>] :
             fs \in RichFileLists}

\* histories of well-formed runs
ScanLines == {<<>>} \cup {<<Meas("scan", t, "ns")>> : t \in {Tok0, Tok100, Tok105, Tok106}}

EvalLines == {<<>>} \cup {<<Meas("eval", t, "ns")>> : t \in {Tok0, Tok100}}

LexerFiles == {TextFile("lexer", s \o e) : s \in ScanLines, e \in EvalLines}

ParserFile == TextFile("parser", <<Meas("scan", Tok100, "ns")>>)

CleanFileLists ==
    {<<l>> : l \in LexerFiles}
    \cup {<<l, ParserFile>> : l \in LexerFiles}
    \cup {<<ParserFile, l>> : l \in LexerFiles}

EarlierFiles ==
    <<TextFile("lexer", <<Meas("scan", Tok7, "ns"), Meas("eval", Tok7, "ns")>>),
      TextFile("parser", <<Meas("scan", Tok7, "ns")>>),
      TextFile("vm", <<Meas("eval", Tok7, "ms")>>)>>

HistoryTrees ==
    {[exists |-> TRUE,
      entries |-> [i \in 1..(k + 2) |->
                      IF i <= k THEN Dir(i, EarlierFiles)
                      ELSE IF i = k + 1 THEN Dir(i, p) ELSE Dir(i, l)]] :
        k \in 0..(MaxRuns - 2), p \in CleanFileLists, l \in CleanFileLists}

\* histories drawn as charts
PlainLexerFiles ==
    {TextFile("lexer", s \o e) : s \in {<<>>, <<Meas("scan", Tok100, "ns")>>},
                                 e \in {<<>>, <<Meas("eval", Tok105, "ns")>>}}

PlainFileLists ==
    {<<l>> : l \in PlainLexerFiles} \cup {<<ParserFile, l>> : l \in PlainLexerFiles}

ChartTrees ==
    {[exists |-> TRUE,
      entries |-> [i \in 1..(k + 2) |->
                      IF i <= k THEN Dir(i, EarlierFiles)
                      ELSE IF i = k + 1 THEN Dir(i, p) ELSE Dir(i, l)]] :
        k \in 0..(MaxRuns - 2), p \in PlainFileLists, l \in PlainFileLists}

\* a directory name without zero padding: strptime reads it as 2024-01-02
Unpadded == [name |-> "202412_000000", isDir |-> TRUE, files |-> <<ParserFile>>]

\* degenerate and small trees
Readme == [name |-> "README", isDir |-> FALSE, files |-> <<>>]

Notes == [name |-> "notes", isDir |-> TRUE, files |-> <<ParserFile>>]

SmallTrees ==
    {[exists |-> FALSE, entries |-> <<>>],
     [exists |-> TRUE, entries |-> <<>>],
     [exists |-> TRUE, entries |-> <<Readme>>],
     [exists |-> TRUE, entries |-> <<Notes>>],
     [exists |-> TRUE, entries |-> <<Dir(1, <<>>)>>],
     [exists |-> TRUE, entries |-> <<Dir(1, <<TextFile("lexer", <<>>)>>)>>],
     [exists |-> TRUE, entries |-> <<Dir(1, <<ParserFile>>)>>],
     [exists |-> TRUE,
      entries |-> <<Dir(1, <<ParserFile>>), Dir(2, EarlierFiles), Readme, Notes>>],
     [exists |-> TRUE, entries |-> <<Dir(3, EarlierFiles), Unpadded>>]}

(***************************************************************************)
(* main, lines 319-356.  dirState is the output directory                  *)
(* ("absent", "blocked": makedirs raises, "exists"); dashboard is the file *)
(* dashboard.html ("none", "stale": left by an earlier execution,          *)
(* "partial": opened and truncated but not written, "fresh": written by    *)
(* this execution, its content in html); charts is the set of suites with  *)
(* a <suite>_performance.png on disk; plotted is the sequence of ax.plot    *)
(* calls of generate_charts; mpl is MATPLOTLIB_AVAILABLE.                  *)
(***************************************************************************)
NoArg == [err |-> "none"]

Init ==
    /\ pc = "start"
    /\ results = <<>>
    /\ html = NoHtml
    /\ exit = -1
    /\ plotted = <<>>
    /\ arg = NoArg
    /\ ret = NoArg
    /\ \/ /\ tree \in SmallTrees
          /\ dirState \in {"absent", "blocked", "exists"}
          /\ dashboard \in (IF dirState = "exists" THEN {"none", "stale"} ELSE {"none"})
          /\ charts \in (IF dirState = "exists" THEN {{}, {"memory"}} ELSE {{}})
          /\ mpl \in BOOLEAN
       \/ /\ tree \in RichTrees \cup HistoryTrees
          /\ dirState = "absent"
          /\ dashboard = "none"
          /\ charts = {}
          /\ mpl = FALSE
       \/ /\ tree \in ChartTrees
          /\ dirState = "absent"
          /\ dashboard = "none"
          /\ charts = {}
          /\ mpl = TRUE

\* line 328
MainParse ==
    /\ pc = "start"
    /\ results' = parse_benchmark_results(tree)
    /\ pc' = "parsed"
    /\ UNCHANGED <<tree, dirState, mpl, dashboard, charts, plotted, html, exit, arg, ret>>

\* lines 330-335
MainNoResults ==
    /\ pc = "parsed"
    /\ results = <<>>
    /\ exit' = 1
    /\ pc' = "done"
    /\ UNCHANGED <<tree, dirState, mpl, dashboard, charts, plotted, results, html, arg,
                   ret>>

\* lines 340-342 and generate_charts, lines 121-188: savefig can raise for
\* any suite, which loses that suite's image only
MainCharts ==
    /\ pc = "parsed"
    /\ results # <<>>
    /\ mpl
    /\ IF dirState = "blocked"
       THEN UNCHANGED <<dirState, charts, plotted>>
       ELSE /\ dirState' = "exists"
            /\ plotted' = Plots(results)
            /\ \E saved \in SUBSET ChartSuites(results) : charts' = charts \cup saved
    /\ pc' = "charted"
    /\ UNCHANGED <<tree, mpl, dashboard, results, html, exit, arg, ret>>

\* lines 343-344
MainSkipCharts ==
    /\ pc = "parsed"
    /\ results # <<>>
    /\ ~mpl
    /\ pc' = "charted"
    /\ UNCHANGED <<tree, dirState, mpl, dashboard, charts, plotted, results, html, exit,
                   arg, ret>>

\* line 347 and generate_html_dashboard, lines 190-306
MainDashboard ==
    /\ pc = "charted"
    /\ IF dirState = "blocked"
       THEN UNCHANGED <<dirState, dashboard, html>>
       ELSE /\ dirState' = "exists"
            /\ \E outcome \in {"written", "open raises", "write raises"} :
                  CASE outcome = "written" ->
                          dashboard' = "fresh" /\ html' = FinalHtml(results, charts)
                    [] outcome = "open raises" -> UNCHANGED <<dashboard, html>>
                    [] outcome = "write raises" ->
                          dashboard' = "partial" /\ UNCHANGED html
    /\ pc' = "rendered"
    /\ UNCHANGED <<tree, mpl, charts, plotted, results, exit, arg, ret>>

\* lines 349-356
MainExit ==
    /\ pc = "rendered"
    /\ exit' = IF dashboard # "none" THEN 0 ELSE 1
    /\ pc' = "done"
    /\ UNCHANGED <<tree, dirState, mpl, dashboard, charts, plotted, results, html, arg,
                   ret>>

Next ==
    \/ MainParse
    \/ MainNoResults
    \/ MainCharts
    \/ MainSkipCharts
    \/ MainDashboard
    \/ MainExit

Spec == Init /\ [][Next]_vars

(***************************************************************************)
(* format_time on its own: values around every tier cut-off                *)
(***************************************************************************)
Margin == 4

FormatInputs ==
    {[n |-> c + k, d |-> 1] : c \in {Margin, 1000, 1000000, 1000000000},
                              k \in (0 - Margin)..Margin}
    \cup {Canon(10 * c + k, 10) : c \in {Margin, 1000, 1000000}, k \in (0 - Margin)..Margin}

InitFormat ==
    /\ pc = "format"
    /\ arg \in FormatInputs
    /\ ret = NoArg
    /\ tree = [exists |-> FALSE, entries |-> <<>>]
    /\ dirState = "absent"
    /\ mpl = FALSE
    /\ dashboard = "none"
    /\ charts = {}
    /\ plotted = <<>>
    /\ results = <<>>
    /\ html = NoHtml
    /\ exit = -1

FormatCall ==
    /\ pc = "format"
    /\ ret' = format_time(arg)
    /\ pc' = "formatted"
    /\ UNCHANGED <<tree, dirState, mpl, dashboard, charts, plotted, results, html, exit,
                   arg>>

NextFormat == FormatCall

SpecFormat == InitFormat /\ [][NextFormat]_vars

(***************************************************************************)
(* One extracted measurement on its own (lines 86-114)                     *)
(***************************************************************************)
MeanTokens == {Tok0, <<"2">>, Tok1p5, <<".", "5">>, <<"1", ".">>, Tok12, TokBad, <<".">>}

UnitTokens == {"ns", "us", "micro_s", "mu_s", "ms", "s", "xs", "NS"}

\* 12 s is beyond the integers of the checker
MatchInputs ==
    {<<"scan", q[1], q[2], q[3], q[4], q[5], q[6]>> :
        q \in {p \in {<<"1">>, TokBad} \X {"ns", "xs"} \X MeanTokens \X UnitTokens
                       \X {<<"9">>, <<".">>} \X {"s", "ms"} :
                  ~(p[3] = Tok12 /\ p[4] = "s")}}

InitMatch ==
    /\ pc = "match"
    /\ arg \in MatchInputs
    /\ ret = NoArg
    /\ tree = [exists |-> FALSE, entries |-> <<>>]
    /\ dirState = "absent"
    /\ mpl = FALSE
    /\ dashboard = "none"
    /\ charts = {}
    /\ plotted = <<>>
    /\ results = <<>>
    /\ html = NoHtml
    /\ exit = -1

MatchCall ==
    /\ pc = "match"
    /\ ret' = MatchTiming(arg)
    /\ pc' = "stored"
    /\ UNCHANGED <<tree, dirState, mpl, dashboard, charts, plotted, results, html, exit,
                   arg>>

NextMatch == MatchCall

SpecMatch == InitMatch /\ [][NextMatch]_vars

(***************************************************************************)
(* Properties                                                              *)
(***************************************************************************)
Parsed == pc \in {"parsed", "charted", "rendered", "done"}

Written == dashboard = "fresh"

KnownUnits == {"ns", "us", "micro_s", "mu_s", "ms", "s"}

\* a measurement the Unit Normalizer accepts
ValidMeasurement(match) == IsNum(float(match[4])) /\ match[5] \in KnownUnits

FileYields(f) ==
    f.kind = "text" /\ \E i \in 1..Len(f.matches) : ValidMeasurement(f.matches[i])

IsRunDir(e) == e.isDir /\ strptime(e.name) # <<>>

DirYields(e) == IsRunDir(e) /\ \E i \in 1..Len(e.files) : FileYields(e.files[i])

Entries == IF tree.exists THEN tree.entries ELSE <<>>

\* C1: every invocation of main, one that finds the Results Store empty
\* included, ends with a dashboard.html written by the Report Renderer; for
\* an empty store it is the minimal "no results" document.
C1_EmptyStoreStillWritesDocument ==
    (pc = "done" /\ results = <<>>)
        => (Written /\ html.latest_results.kind = "No results available")

\* C2: main exits 0 only when a usable run was parsed and this invocation
\* wrote dashboard.html; it exits 1 when no usable results were found and
\* whenever this invocation did not write the document, whatever the output
\* directory held before.
C2_ExitStatusReflectsThisWrite ==
    pc = "done" =>
        /\ exit = 0 => (results # <<>> /\ Written)
        /\ results = <<>> => exit = 1
        /\ ~Written => exit = 1

\* C3: every run of the Results Store has at least one suite and every
\* stored suite has at least one test; the runs are exactly the timestamp
\* directories with at least one accepted measurement, so a directory that
\* yields none is not in the sequence.
C3_StoreHasNoEmptyRunOrSuite ==
    Parsed =>
        /\ \A i \in 1..Len(results) :
              /\ results[i].benchmarks # <<>>
              /\ \A j \in 1..Len(results[i].benchmarks) :
                    results[i].benchmarks[j].val # <<>>
        /\ LET yielding == SelectSeq(Entries, DirYields)
           IN  /\ Len(results) = Len(yielding)
               /\ \A i \in 1..Len(results) :
                     results[i].timestamp = strptime(yielding[i].name)

C3_Witness ==
    /\ Parsed
    /\ results # <<>>
    /\ \E i \in 1..Len(Entries) :
          /\ IsRunDir(Entries[i])
          /\ ~DirYields(Entries[i])
          /\ \E k \in 1..Len(Entries[i].files) : Entries[i].files[k].matches # <<>>
    /\ \E i \in 1..Len(Entries) :
          /\ DirYields(Entries[i])
          /\ \E k \in 1..Len(Entries[i].files) :
                /\ Entries[i].files[k].matches # <<>>
                /\ ~FileYields(Entries[i].files[k])

\* the run stored for a timestamp directory
RunsOf(e) == {i \in 1..Len(results) : results[i].timestamp = strptime(e.name)}

\* the measurement of a test that an artifact's later lines do not replace
Effective(f, i) ==
    /\ ValidMeasurement(f.matches[i])
    /\ \A j \in (i + 1)..Len(f.matches) :
          ~(f.matches[j][1] = f.matches[i][1] /\ ValidMeasurement(f.matches[j]))

Stored(r, suite, test) ==
    /\ suite \in DictKeys(r.benchmarks)
    /\ test \in DictKeys(DictGet(r.benchmarks, suite))

\* C9: a failing artifact (unreadable, empty, no match) or a rejected
\* measurement removes only itself: every accepted measurement of every
\* readable artifact of every timestamp directory is stored with the timing
\* it has on its own (the last one when a test name repeats), nothing else
\* is stored, and later runs are parsed all the same.
C9_FailuresAreIsolated ==
    Parsed =>
        /\ \A e \in 1..Len(Entries) : IsRunDir(Entries[e]) =>
              \A k \in 1..Len(Entries[e].files) :
                 LET f == Entries[e].files[k]
                 IN  f.kind = "text" =>
                        \A i \in 1..Len(f.matches) : Effective(f, i) =>
                           \E r \in RunsOf(Entries[e]) :
                              /\ Stored(results[r], f.stem, f.matches[i][1])
                              /\ DictGet(DictGet(results[r].benchmarks, f.stem),
                                         f.matches[i][1])
                                    = MatchTiming(f.matches[i])
        /\ \A r \in 1..Len(results) :
              \A s \in 1..Len(results[r].benchmarks) :
                 \A t \in 1..Len(results[r].benchmarks[s].val) :
                    \E e \in 1..Len(Entries) :
                       /\ r \in RunsOf(Entries[e])
                       /\ \E k \in 1..Len(Entries[e].files) :
                             LET f == Entries[e].files[k]
                             IN  /\ f.stem = results[r].benchmarks[s].key
                                 /\ f.kind = "text"
                                 /\ \E i \in 1..Len(f.matches) :
                                       /\ ValidMeasurement(f.matches[i])
                                       /\ f.matches[i][1]
                                             = results[r].benchmarks[s].val[t].key

C9_Witness ==
    /\ Parsed
    /\ Len(results) = 2
    /\ Len(Entries) = 2
    /\ \E k \in 1..Len(Entries[1].files) :
          /\ Entries[1].files[k].kind \in {"unreadable", "blank"}
    /\ \E k \in 1..Len(Entries[1].files) :
          LET f == Entries[1].files[k]
          IN  /\ Len(f.matches) >= 2
              /\ ~ValidMeasurement(f.matches[1])
              /\ ValidMeasurement(f.matches[2])
              /\ Stored(results[1], f.stem, f.matches[2][1])

(***************************************************************************)
(* The tables of a written report                                          *)
(***************************************************************************)
LatestRun == results[Len(results)].benchmarks

PrecedingRun == results[Len(results) - 1].benchmarks

Names == {NameOrder[i] : i \in 1..Len(NameOrder)}

PairsOf(b) == {p \in Names \X Names :
                  p[1] \in DictKeys(b) /\ p[2] \in DictKeys(DictGet(b, p[1]))}

TimeOf(b, p) == DictGet(DictGet(b, p[1]), p[2])

CommonPairs == PairsOf(LatestRun) \cap PairsOf(PrecedingRun)

CmpRows == html.comparisons.rows

\* C4: with two runs or more the comparison table has exactly one row for
\* each (suite, test) present in both the last and the second-to-last run,
\* its previous and latest values taken from those two runs; a pair missing
\* from the second-to-last run has no row, whatever earlier runs hold.
C4_ComparisonUsesLastTwoRuns ==
    (Written /\ Len(results) >= 2) =>
        /\ html.comparisons.kind = "table"
        /\ {<<CmpRows[i].suite, CmpRows[i].test>> : i \in 1..Len(CmpRows)} = CommonPairs
        /\ Len(CmpRows) = Cardinality(CommonPairs)
        /\ \A i \in 1..Len(CmpRows) :
              LET p == <<CmpRows[i].suite, CmpRows[i].test>>
              IN  /\ CmpRows[i].previous = format_time(TimeOf(PrecedingRun, p))
                  /\ CmpRows[i].latest = format_time(TimeOf(LatestRun, p))

C4_Witness ==
    /\ Written
    /\ Len(results) >= 3
    /\ CmpRows # <<>>
    /\ \E p \in PairsOf(LatestRun) :
          /\ p \notin PairsOf(PrecedingRun)
          /\ p \in PairsOf(results[Len(results) - 2].benchmarks)

\* the class the percent change alone gives: the change is unbounded when
\* previous = 0 < latest and "no change" when both are 0
ClassOfChange(prev, curr) ==
    IF prev.n = 0 THEN (IF curr.n = 0 THEN "" ELSE "regression")
    ELSE IF curr.n * prev.d < prev.n * curr.d THEN "improvement"
    ELSE IF (curr.n * prev.d - prev.n * curr.d) * 100 > 5 * prev.n * curr.d
         THEN "regression"
    ELSE ""

\* C5: the class of every comparison row follows from its percent change
\* alone: improvement below 0, regression above 5 percent (the unbounded
\* increase from previous = 0 included), neutral otherwise.
C5_ClassFollowsChange ==
    (Written /\ Len(results) >= 2) =>
        \A i \in 1..Len(CmpRows) :
           LET p == <<CmpRows[i].suite, CmpRows[i].test>>
           IN  CmpRows[i].change_class
                  = ClassOfChange(TimeOf(PrecedingRun, p), TimeOf(LatestRun, p))

\* C6: a pair whose previous value is 0 still gets its row: "N/A" with the
\* neutral class when the latest value is 0 too, "+inf%" when it is above
\* 0; the rows of the other pairs are rendered as well.
C6_ZeroPreviousIsRendered ==
    (Written /\ Len(results) >= 2) =>
        /\ Len(CmpRows) = Cardinality(CommonPairs)
        /\ \A p \in CommonPairs : TimeOf(PrecedingRun, p).n = 0 =>
              \E i \in 1..Len(CmpRows) :
                 /\ CmpRows[i].suite = p[1]
                 /\ CmpRows[i].test = p[2]
                 /\ IF TimeOf(LatestRun, p).n = 0
                    THEN CmpRows[i].change_str = "N/A" /\ CmpRows[i].change_class = ""
                    ELSE CmpRows[i].change_str = "+inf%"

C6_Witness ==
    /\ Written
    /\ Len(CmpRows) = 3
    /\ CmpRows[1].change_str = "N/A"
    /\ CmpRows[2].change_str = "+inf%"
    /\ CmpRows[3].change_str \in {"~", "pct"}

LatestRowsOf == html.latest_results.rows

RowBefore(a, b) ==
    \/ StrLess(a.suite, b.suite)
    \/ a.suite = b.suite /\ StrLess(a.test, b.test)

\* C8: with a non-empty store the Latest Results table has exactly one row
\* per (suite, test) of the last run and of no other run, ascending by suite
\* name and then by test name, each showing format_time of the stored timing.
C8_LatestTableIsLastRunSorted ==
    (Written /\ results # <<>>) =>
        /\ html.latest_results.kind = "table"
        /\ {<<LatestRowsOf[i].suite, LatestRowsOf[i].test>> : i \in 1..Len(LatestRowsOf)}
              = PairsOf(LatestRun)
        /\ Len(LatestRowsOf) = Cardinality(PairsOf(LatestRun))
        /\ \A i \in 1..(Len(LatestRowsOf) - 1) :
              RowBefore(LatestRowsOf[i], LatestRowsOf[i + 1])
        /\ \A i \in 1..Len(LatestRowsOf) :
              LatestRowsOf[i].time
                 = format_time(TimeOf(LatestRun,
                                      <<LatestRowsOf[i].suite, LatestRowsOf[i].test>>))

C8_Witness ==
    /\ Written
    /\ Len(results) >= 2
    /\ Len(LatestRun) = 2
    /\ LatestRun[1].key = "parser"
    /\ Len(DictGet(LatestRun, "lexer")) = 2
    /\ DictGet(LatestRun, "lexer")[1].key = "scan"
    /\ \E i \in 1..(Len(results) - 1) :
          PairsOf(results[i].benchmarks) \ PairsOf(LatestRun) # {}

Under(v, k) == v.n \div v.d < k

\* the size of one unit of the printed value, in units of 1 / v.d ns
StepOf(v, r) ==
    v.d * (CASE r.unit = "ns" -> 1 [] r.unit = "mu_s" -> 100
             [] r.unit = "ms" -> 100000 [] r.unit = "s" -> 10000000)

\* C7: format_time picks the unit by the cut-offs alone: ns with 0 decimals
\* iff v < 1,000; microseconds with 1 decimal iff 1,000 <= v < 1,000,000;
\* ms with 1 decimal iff 1,000,000 <= v < 1,000,000,000; s with 2 decimals
\* iff v >= 1,000,000,000; the unit is picked before the value is rounded
\* (999 -> "999 ns", 1000 -> "1.0 mu_s", 999999 -> "1000.0 mu_s").
C7_UnitByTierCutoffs ==
    pc = "formatted" =>
        /\ ret.unit = "ns" <=> Under(arg, 1000)
        /\ ret.unit = "mu_s" <=> (~Under(arg, 1000) /\ Under(arg, 1000000))
        /\ ret.unit = "ms" <=> (~Under(arg, 1000000) /\ Under(arg, 1000000000))
        /\ ret.unit = "s" <=> ~Under(arg, 1000000000)
        /\ ret.dec = (CASE ret.unit = "ns" -> 0 [] ret.unit = "mu_s" -> 1
                        [] ret.unit = "ms" -> 1 [] ret.unit = "s" -> 2)
        /\ LET q    == StepOf(arg, ret)
               diff == ret.val * q - arg.n
           IN  2 * (IF diff < 0 THEN 0 - diff ELSE diff) <= q
        /\ arg = [n |-> 999, d |-> 1] => ret = [val |-> 999, dec |-> 0, unit |-> "ns"]
        /\ arg = [n |-> 1000, d |-> 1] => ret = [val |-> 10, dec |-> 1, unit |-> "mu_s"]
        /\ arg = [n |-> 999999, d |-> 1]
              => ret = [val |-> 10000, dec |-> 1, unit |-> "mu_s"]

C7_Witness ==
    /\ pc = "formatted"
    /\ arg = [n |-> 999999, d |-> 1]
    /\ ret.val = 10000
    /\ ret.unit = "mu_s"

Factor(u) ==
    CASE u = "ns" -> 1
      [] u \in {"us", "micro_s", "mu_s"} -> 1000
      [] u = "ms" -> 1000000
      [] u = "s" -> 1000000000

\* x = m * k, for a power of ten k
IsProduct(x, m, k) ==
    IF m.d <= k
    THEN x.d = 1 /\ x.n % (k \div m.d) = 0 /\ x.n \div (k \div m.d) = m.n
    ELSE x.n = m.n /\ x.d * k = m.d

NumLeq(a, b) == a.n * b.d <= b.n * a.d

\* C10: a measurement with mean magnitude m >= 0 and mean unit u stores
\* m*1 for ns, m*1,000 for us and both micro-sign spellings, m*1,000,000 for
\* ms, m*1,000,000,000 for s, monotonic in m for a fixed unit; any other
\* unit stores nothing; the low and high values and their units do not
\* change what is stored.
C10_UnitNormalization ==
    pc = "stored" =>
        LET m == float(arg[4])
            u == arg[5]
        IN  /\ IF IsNum(m) /\ u \in KnownUnits
               THEN IsNum(ret) /\ IsProduct(ret, m, Factor(u))
               ELSE ret = Skip
            /\ \A x \in MatchInputs :
                  (x[5] = u /\ IsNum(ret) /\ IsNum(float(x[4])) /\ NumLeq(m, float(x[4])))
                     => NumLeq(ret, MatchTiming(x))
            /\ \A x \in MatchInputs :
                  (x[4] = arg[4] /\ x[5] = arg[5]) => MatchTiming(x) = ret

C10_Witness ==
    /\ pc = "stored"
    /\ arg[4] = Tok1p5
    /\ arg[5] = "mu_s"
    /\ arg[2] = TokBad
    /\ arg[3] = "xs"
    /\ ret = [n |-> 1500, d |-> 1]

(***************************************************************************)
(* Chart references and chart series                                       *)
(***************************************************************************)
ChartRefSet == {html.charts[i] : i \in 1..Len(html.charts)}

KnownSuiteSet == {KnownSuites[i] : i \in 1..Len(KnownSuites)}

\* C11: the written report references the image of every suite that has a
\* <suite>_performance.png on disk at render time and of no other suite; so
\* every suite the Chart Renderer saved an image for is referenced.
C11_EveryImageOnDiskIsReferenced ==
    Written => ChartRefSet = charts

\* C11 as amended: the report references exactly the suites of the fixed
\* list (lexer, parser, compilation, features, scenarios, memory, tooling)
\* that have an image on disk at render time, each once; an image of a suite
\* outside the list is not referenced; without the rendering backend the
\* report is written all the same.
C11_ListedImagesOnDiskAreReferenced ==
    Written =>
        /\ ChartRefSet = charts \cap KnownSuiteSet
        /\ Len(html.charts) = Cardinality(ChartRefSet)

C11_Witness ==
    /\ Written
    /\ mpl
    /\ "vm" \in charts
    /\ "lexer" \in ChartRefSet
    /\ "parser" \in ChartSuites(results) \ charts
    /\ "parser" \notin ChartRefSet

(***************************************************************************)
(* Two executions over the same results directory                          *)
(***************************************************************************)
Orders(files) ==
    {[i \in 1..Len(files) |-> files[f[i]]] :
        f \in {g \in [1..Len(files) -> 1..Len(files)] :
                  \A i, j \in 1..Len(files) : g[i] = g[j] => i = j}}

\* the same directories, their artifacts enumerated in any order
RECURSIVE Enumerations(_)
Enumerations(entries) ==
    IF entries = <<>> THEN {<<>>}
    ELSE {<<[Head(entries) EXCEPT !.files = fs]>> \o rest :
             fs \in Orders(Head(entries).files), rest \in Enumerations(Tail(entries))}

\* C12: a second execution over the unchanged results directory writes the
\* same Latest Results table and the same Comparison table, rows and their
\* order included, whatever order the file system enumerates the artifact
\* files of each run in.
C12_TablesIndependentOfEnumeration ==
    Written =>
        \A es \in Enumerations(Entries) :
           LET again == parse_benchmark_results([exists |-> TRUE, entries |-> es])
           IN  /\ LatestTable(again) = html.latest_results
               /\ ComparisonTable(again) = html.comparisons

\* the Latest Results table alone is the same: lines 242-243 sort it
LatestIndependentOfEnumeration ==
    Written =>
        \A es \in Enumerations(Entries) :
           LatestTable(parse_benchmark_results([exists |-> TRUE, entries |-> es]))
              = html.latest_results

(***************************************************************************)
(* C13: the series of the charts                                           *)
(***************************************************************************)

Charted == pc \in {"charted", "rendered", "done"} /\ mpl /\ dirState # "blocked"

\* every (suite, test) pair some run of the store holds
SeenPairs == UNION {PairsOf(results[i].benchmarks) : i \in 1..Len(results)}

LinesOf(p) == {k \in 1..Len(plotted) :
                  plotted[k].suite = p[1] /\ plotted[k].label = p[2]}

\* C13: every (suite, test) pair seen in any run gets exactly one line, and
\* no other line is drawn; the line has one entry per run of the store, in run
\* order, its x the run's timestamp, its y the run's stored timing where the
\* run holds the pair and None where it does not.
C13_SeriesHaveOneEntryPerRun ==
    Charted =>
        /\ Len(plotted) = Cardinality(SeenPairs)
        /\ \A p \in SeenPairs :
              /\ Cardinality(LinesOf(p)) = 1
              /\ \A k \in LinesOf(p) :
                    /\ plotted[k].x = Timestamps(results)
                    /\ Len(plotted[k].y) = Len(results)
                    /\ \A i \in 1..Len(results) :
                          plotted[k].y[i] =
                             IF p \in PairsOf(results[i].benchmarks)
                             THEN TimeOf(results[i].benchmarks, p)
                             ELSE None

\* three runs; one line has a gap between two values, a second line is drawn
\* in the same figure, and a line of another figure ends with two gaps
C13_Witness ==
    /\ Charted
    /\ Len(results) = 3
    /\ \E k, j \in 1..Len(plotted) :
          /\ k # j /\ plotted[k].suite = plotted[j].suite
          /\ IsNum(plotted[k].y[1]) /\ plotted[k].y[2] = None /\ IsNum(plotted[k].y[3])
    /\ \E m \in 1..Len(plotted) :
          IsNum(plotted[m].y[1]) /\ plotted[m].y[2] = None /\ plotted[m].y[3] = None

(***************************************************************************)
(* C14: the order of the runs                                              *)
(***************************************************************************)

\* datetime order on <<year, month, day, hour, minute, second>>
RECURSIVE TsLess(_, _)
TsLess(a, b) ==
    /\ a # <<>>
    /\ \/ Head(a) < Head(b)
       \/ Head(a) = Head(b) /\ TsLess(Tail(a), Tail(b))

\* the timestamps of the directories that yield a run, in name order
RECURSIVE YieldingTimestamps(_)
YieldingTimestamps(entries) ==
    IF entries = <<>> THEN <<>>
    ELSE (IF DirYields(Head(entries)) THEN <<strptime(Head(entries).name)>> ELSE <<>>)
         \o YieldingTimestamps(Tail(entries))

\* C14: the runs of the store are the yielding directories in ascending name
\* order, entries that are not directories or whose name does not parse are
\* absent, and the timestamps strictly increase along the sequence, so that
\* the last run is the most recent one.
C14_RunsInChronologicalOrder ==
    Parsed =>
        /\ Timestamps(results) = YieldingTimestamps(Entries)
        /\ \A i \in 1..(Len(results) - 1) :
              TsLess(results[i].timestamp, results[i + 1].timestamp)

\* the part the sort of line 37 gives: name order, nothing but run directories
RunsInNameOrder == Parsed => Timestamps(results) = YieldingTimestamps(Entries)

====
